---- MODULE Spec2Model ----
(***************************************************************************)
(* Model of Tools/extract_vbios.py: enumeration of NVIDIA PCI devices in   *)
(* sysfs, the enable/read/disable capture of the expansion ROM, the        *)
(* structural validation of the captured image and its persistence.       *)
(* Text is modelled as sequences of one-character strings, byte strings    *)
(* as sequences of 0..255, and a Python value that may be None as a        *)
(* record [isNone, bytes].                                                 *)
(***************************************************************************)
EXTENDS Integers, Sequences, FiniteSets, TLC

\* ---------------------------------------------------------------- bounds
MaxDevices == 2
MaxImageLen == 100

\* ------------------------------------------------------- program constants
MinRomLen == 64
PciPtrOffset == 24

ROM_SIGNATURE == <<85, 170>>
PCIR == <<80, 67, 73, 82>>
NVIDIA_VENDOR == <<"0", "x", "1", "0", "d", "e">>

\* ------------------------------------------------------------ Python text
Whitespace == {" ", "\n", "\t"}

LowerChar(c) ==
    CASE c = "A" -> "a" [] c = "B" -> "b" [] c = "C" -> "c"
      [] c = "D" -> "d" [] c = "E" -> "e" [] c = "F" -> "f"
      [] c = "X" -> "x" [] c = "Y" -> "y" [] c = "N" -> "n"
      [] c = "S" -> "s" [] OTHER -> c

Lower(s) == [i \in 1..Len(s) |-> LowerChar(s[i])]

RECURSIVE LStrip(_)
LStrip(s) == IF s # <<>> /\ Head(s) \in Whitespace THEN LStrip(Tail(s)) ELSE s

RECURSIVE RStrip(_)
RStrip(s) ==
    IF s # <<>> /\ s[Len(s)] \in Whitespace
    THEN RStrip(SubSeq(s, 1, Len(s) - 1))
    ELSE s

Strip(s) == RStrip(LStrip(s))

\* ----------------------------------------------------------- Python bytes
None == [isNone |-> TRUE, bytes |-> <<>>]
Bytes(b) == [isNone |-> FALSE, bytes |-> b]

\* "not data": None and the empty byte string are both falsy
Falsy(d) == d.isNone \/ Len(d.bytes) = 0

Min(a, b) == IF a < b THEN a ELSE b

\* b[lo:hi] with zero-based bounds, clamped to the length as Python does
PySlice(b, lo, hi) == SubSeq(b, lo + 1, Min(hi, Len(b)))

\* struct.unpack('<H', h)[0] for a two-byte h
UnpackLE16(h) == h[1] + 256 * h[2]

\* ------------------------------------------------------------- validation
TooSmall(d) == Falsy(d) \/ Len(d.bytes) < MinRomLen

HasRomSignature(b) == PySlice(b, 0, 2) = ROM_SIGNATURE

PciSigLocatedOffByOne(b, pci_offset) ==
    /\ pci_offset + 4 < Len(b)
    /\ PySlice(b, pci_offset, pci_offset + 4) = PCIR

PciSigLocated(b, pci_offset) ==
    /\ pci_offset + 4 <= Len(b)
    /\ PySlice(b, pci_offset, pci_offset + 4) = PCIR

VResult(valid, reason, raised) ==
    [valid |-> valid, reason |-> reason, raised |-> raised]

validate_vbios(d) ==
    IF TooSmall(d) THEN VResult(FALSE, "too_small", FALSE)
    ELSE IF ~HasRomSignature(d.bytes)
         THEN VResult(FALSE, "bad_signature", FALSE)
    ELSE LET hdr == PySlice(d.bytes, PciPtrOffset, PciPtrOffset + 2) IN
         IF Len(hdr) # 2 THEN VResult(FALSE, "struct_error", TRUE)
         ELSE IF PciSigLocated(d.bytes, UnpackLE16(hdr))
              THEN VResult(TRUE, "pcir_found", FALSE)
              ELSE VResult(TRUE, "signature_only", FALSE)

\* ------------------------------------------------------------ enumeration
Attr(state, text) == [state |-> state, text |-> text]

VendorLower == Attr("ok", <<"0", "x", "1", "0", "d", "e", "\n">>)
VendorUpper == Attr("ok", <<"0", "x", "1", "0", "D", "E", "\n">>)
VendorIntel == Attr("ok", <<"0", "x", "8", "0", "8", "6", "\n">>)
DeviceId == Attr("ok", <<"0", "x", "2", "6", "8", "4", "\n">>)
Missing == Attr("missing", <<>>)
Unreadable == Attr("unreadable", <<>>)

Kind(v, d, rom) == [vendor |-> v, device |-> d, rom |-> rom]

EntryKinds ==
    { Kind(VendorLower, DeviceId, TRUE),
      Kind(VendorLower, DeviceId, FALSE),
      Kind(VendorUpper, DeviceId, TRUE),
      Kind(VendorIntel, DeviceId, TRUE),
      Kind(Missing, DeviceId, TRUE),
      Kind(VendorLower, Missing, TRUE),
      Kind(Unreadable, DeviceId, TRUE),
      Kind(VendorLower, Unreadable, TRUE) }

\* directory listings: entry i has the bus address i
Dirs ==
    UNION { { [i \in 1..n |->
                [name |-> i, vendor |-> f[i].vendor,
                 device |-> f[i].device, rom |-> f[i].rom]] :
              f \in [1..n -> EntryKinds] } : n \in 0..MaxDevices }

Exists(a) == a.state # "missing"

\* "if vendor == \"0x10de\"": an exact, case-sensitive comparison
IsNvidia(vendor) == vendor = NVIDIA_VENDOR

\* one iteration of the loop body: the tuples it appends to gpus
ScanEntry(e) ==
    IF ~(Exists(e.vendor) /\ Exists(e.device)) THEN <<>>
    ELSE IF e.vendor.state # "ok" \/ e.device.state # "ok" THEN <<>>
    ELSE IF IsNvidia(Strip(e.vendor.text))
         THEN << <<e.name, Strip(e.device.text)>> >>
         ELSE <<>>

RECURSIVE ScanDir(_)
ScanDir(es) == IF es = <<>> THEN <<>> ELSE ScanEntry(Head(es)) \o ScanDir(Tail(es))

find_nvidia_gpus(root, es) == IF root = "missing" THEN <<>> ELSE ScanDir(es)

\* ---------------------------------------------------------------- capture
IoResults == {"ok", "PermissionError", "OSError"}

ExceptHandlerGeneric(e) == "ReadError"

\* the except clauses of read_vbios_from_device: the diagnostic printed
ExceptHandler(e) == IF e = "PermissionError" THEN "PermissionDenied" ELSE "ReadError"

\* ------------------------------------------------------------ persistence
NeedsConfirmNever(valid) == FALSE

NeedsConfirm(valid) == ~valid

Declined(r) == Lower(r) # <<"y">>

Responses == { <<"y">>, <<"Y">>, <<"n">>, <<"y", "e", "s">>, <<>> }

WriteFileAppend(old, b) == old \o b

\* open(output_file, 'wb') truncates, f.write(data) stores the bytes
WriteFile(old, b) == b

StaleArtifact == <<222, 173>>

\* ------------------------------------------------------------ ROM images
ImageLens == {0, 50, MinRomLen - 1, MinRomLen, MinRomLen + 4, MaxImageLen}
Signatures == { <<85, 170>>, <<0, 0>>, <<85, 0>> }
Pointers == { <<32, 0>>, <<60, 0>>, <<61, 0>>, <<64, 0>>, <<96, 0>>, <<97, 0>>, <<32, 1>> }
SigPlaces == {0, 32, 60, 64, 96}
SigTexts == { PCIR, <<80, 67, 73, 88>> }

MkImage(len, sig, ptr, q, txt) ==
    [i \in 1..len |->
        IF i <= 2 THEN sig[i]
        ELSE IF i = PciPtrOffset + 1 THEN ptr[1]
        ELSE IF i = PciPtrOffset + 2 THEN ptr[2]
        ELSE IF q > 0 /\ i > q /\ i <= q + 4 THEN txt[i - q]
        ELSE 0]

Images ==
    { MkImage(len, sig, ptr, q, txt) :
        len \in ImageLens, sig \in Signatures, ptr \in Pointers,
        q \in SigPlaces, txt \in SigTexts }

Inputs == {None} \cup { Bytes(b) : b \in Images }

\* ------------------------------------------------------------------ state
VARIABLES pc, entry, pciRoot, entries, romEnabled, outFile, args, gpus,
          addr, romData, data, diag, vres, response, saveRet, exitCode,
          exc, ioLog

vars == <<pc, entry, pciRoot, entries, romEnabled, outFile, args, gpus,
          addr, romData, data, diag, vres, response, saveRet, exitCode,
          exc, ioLog>>

Io(op, a, res) == [op |-> op, addr |-> a, res |-> res]

Indexes == (0 - (MaxDevices + 1))..(MaxDevices + 1)

Init ==
    /\ pc = "start"
    /\ entry = "none"
    /\ \/ pciRoot = "ok" /\ entries \in Dirs
       \/ pciRoot \in {"missing", "unlistable"} /\ entries = <<>>
    /\ romEnabled = {}
    /\ outFile = StaleArtifact
    /\ args = [index |-> 0, list |-> FALSE]
    /\ gpus = <<>>
    /\ addr = 0
    /\ romData = None
    /\ data = None
    /\ diag = "none"
    /\ vres = VResult(FALSE, "none", FALSE)
    /\ response = <<>>
    /\ saveRet = "none"
    /\ exitCode = 0
    /\ exc = "none"
    /\ ioLog = <<>>

\* ---------------------------------------------------------------- callers
\* main(): parser.parse_args()
Main_ParseArgs ==
    /\ pc = "start"
    /\ \E i \in Indexes, l \in BOOLEAN : args' = [index |-> i, list |-> l]
    /\ entry' = "main"
    /\ pc' = "find"
    /\ UNCHANGED <<pciRoot, entries, romEnabled, outFile, gpus, addr, romData,
                   data, diag, vres, response, saveRet, exitCode, exc, ioLog>>

\* a direct call of validate_vbios(data)
Call_validate_vbios ==
    /\ pc = "start"
    /\ \E d \in Inputs : data' = d
    /\ entry' = "validate_vbios"
    /\ pc' = "validate"
    /\ UNCHANGED <<pciRoot, entries, romEnabled, outFile, args, gpus, addr,
                   romData, diag, vres, response, saveRet, exitCode, exc, ioLog>>

\* a direct call of save_vbios(data, output_file)
Call_save_vbios ==
    /\ pc = "start"
    /\ \E d \in Inputs : data' = d
    /\ entry' = "save_vbios"
    /\ pc' = "save"
    /\ UNCHANGED <<pciRoot, entries, romEnabled, outFile, args, gpus, addr,
                   romData, diag, vres, response, saveRet, exitCode, exc, ioLog>>

\* ------------------------------------------------------------ enumeration
FindNvidiaGpus ==
    /\ pc = "find"
    /\ IF pciRoot = "unlistable"
       THEN \* os.listdir raises; nothing catches it
            /\ exc' = "PermissionError"
            /\ exitCode' = 1
            /\ pc' = "done"
            /\ UNCHANGED gpus
       ELSE /\ gpus' = find_nvidia_gpus(pciRoot, entries)
            /\ pc' = "select"
            /\ UNCHANGED <<exc, exitCode>>
    /\ UNCHANGED <<entry, pciRoot, entries, romEnabled, outFile, args, addr,
                   romData, data, diag, vres, response, saveRet, ioLog>>

\* gpus[i] for a Python int i: negative indexes count from the end
PyIndexOk(n, i) == i < n /\ i >= 0 - n
PyIndex(n, i) == IF i >= 0 THEN i + 1 ELSE n + i + 1

IndexRejected(n, i) == i >= n

\* main(): from "if not gpus" to "addr, dev_id = gpus[args.index]"
Main_Select ==
    /\ pc = "select"
    /\ IF gpus = <<>>
       THEN /\ exitCode' = 1 /\ pc' = "done" /\ UNCHANGED <<addr, exc>>
       ELSE IF args.list
       THEN /\ exitCode' = 0 /\ pc' = "done" /\ UNCHANGED <<addr, exc>>
       ELSE IF IndexRejected(Len(gpus), args.index)
       THEN /\ exitCode' = 1 /\ pc' = "done" /\ UNCHANGED <<addr, exc>>
       ELSE IF ~PyIndexOk(Len(gpus), args.index)
       THEN /\ exc' = "IndexError" /\ exitCode' = 1 /\ pc' = "done"
            /\ UNCHANGED addr
       ELSE /\ addr' = gpus[PyIndex(Len(gpus), args.index)][1]
            /\ pc' = "capture"
            /\ UNCHANGED <<exitCode, exc>>
    /\ UNCHANGED <<entry, pciRoot, entries, romEnabled, outFile, args, gpus,
                   romData, data, diag, vres, response, saveRet, ioLog>>

\* ---------------------------------------------------------------- capture
RomExists(a) == entries[a].rom

\* read_vbios_from_device: "if not os.path.exists(rom_path)"
RomPathCheck ==
    /\ pc = "capture"
    /\ IF ~RomExists(addr)
       THEN /\ diag' = "RomAttributeMissing"
            /\ data' = None
            /\ pc' = "checkdata"
       ELSE /\ pc' = "enable"
            /\ UNCHANGED <<diag, data>>
    /\ UNCHANGED <<entry, pciRoot, entries, romEnabled, outFile, args, gpus,
                   addr, romData, vres, response, saveRet, exitCode, exc, ioLog>>

\* open(rom_path, 'wb'); f.write(b"1")
EnableWrite ==
    /\ pc = "enable"
    /\ \E res \in IoResults :
          /\ ioLog' = Append(ioLog, Io("enable", addr, res))
          /\ IF res = "ok"
             THEN /\ romEnabled' = romEnabled \cup {addr}
                  /\ pc' = "read"
                  /\ UNCHANGED <<diag, data>>
             ELSE /\ diag' = ExceptHandler(res)
                  /\ data' = None
                  /\ pc' = "checkdata"
                  /\ UNCHANGED romEnabled
    /\ UNCHANGED <<entry, pciRoot, entries, outFile, args, gpus, addr, romData,
                   vres, response, saveRet, exitCode, exc>>

\* open(rom_path, 'rb'); data = f.read()
BulkRead ==
    /\ pc = "read"
    /\ \E res \in IoResults :
          /\ ioLog' = Append(ioLog, Io("read", addr, res))
          /\ IF res = "ok"
             THEN /\ \E b \in Images : romData' = Bytes(b)
                  /\ pc' = "disable"
                  /\ UNCHANGED <<diag, data>>
             ELSE \* the exception leaves the try block: no disable write
                  /\ diag' = ExceptHandler(res)
                  /\ data' = None
                  /\ pc' = "checkdata"
                  /\ UNCHANGED romData
    /\ UNCHANGED <<entry, pciRoot, entries, romEnabled, outFile, args, gpus,
                   addr, vres, response, saveRet, exitCode, exc>>

\* open(rom_path, 'wb'); f.write(b"0"); return data
DisableWrite ==
    /\ pc = "disable"
    /\ \E res \in IoResults :
          /\ ioLog' = Append(ioLog, Io("disable", addr, res))
          /\ IF res = "ok"
             THEN /\ romEnabled' = romEnabled \ {addr}
                  /\ data' = romData
                  /\ UNCHANGED diag
             ELSE /\ diag' = ExceptHandler(res)
                  /\ data' = None
                  /\ UNCHANGED romEnabled
    /\ pc' = "checkdata"
    /\ UNCHANGED <<entry, pciRoot, entries, outFile, args, gpus, addr, romData,
                   vres, response, saveRet, exitCode, exc>>

\* main(): "if not data: ... sys.exit(1)"
Main_CheckData ==
    /\ pc = "checkdata"
    /\ IF Falsy(data)
       THEN exitCode' = 1 /\ pc' = "done"
       ELSE pc' = "save" /\ UNCHANGED exitCode
    /\ UNCHANGED <<entry, pciRoot, entries, romEnabled, outFile, args, gpus,
                   addr, romData, data, diag, vres, response, saveRet, exc,
                   ioLog>>

\* ------------------------------------------------------------ persistence
WriteResults == {"ok", "open_failed", "write_failed"}

\* "with open(output_file, 'wb') as f: f.write(data)" under outcome w
SaveWrite(w) ==
    IF w = "open_failed"
    THEN /\ ioLog' = Append(ioLog, Io("open_wb", 0, "PermissionError"))
         /\ exc' = "PermissionError"
         /\ UNCHANGED <<outFile, saveRet>>
    ELSE IF w = "write_failed" \/ data.isNone
    THEN /\ ioLog' = ioLog \o <<Io("open_wb", 0, "ok"), Io("write", 0, "failed")>>
         /\ outFile' = <<>>
         /\ exc' = IF data.isNone THEN "TypeError" ELSE "OSError"
         /\ UNCHANGED saveRet
    ELSE /\ ioLog' = ioLog \o <<Io("open_wb", 0, "ok"), Io("write", 0, "ok")>>
         /\ outFile' = WriteFile(outFile, data.bytes)
         /\ saveRet' = "True"
         /\ UNCHANGED exc

\* save_vbios(data, output_file) and, when main called it, main's last lines:
\* main ends without sys.exit whatever save_vbios returned
SaveVbios ==
    /\ pc = "save"
    /\ vres' = validate_vbios(data)
    /\ IF vres'.raised
       THEN /\ exc' = "StructError"
            /\ UNCHANGED <<response, saveRet, outFile, ioLog>>
       ELSE IF NeedsConfirm(vres'.valid)
       THEN \E r \in Responses :
               /\ response' = r
               /\ IF Declined(r)
                  THEN /\ saveRet' = "False"
                       /\ UNCHANGED <<outFile, ioLog, exc>>
                  ELSE \E w \in WriteResults : SaveWrite(w)
       ELSE /\ UNCHANGED response
            /\ \E w \in WriteResults : SaveWrite(w)
    /\ exitCode' = IF exc' # "none" THEN 1 ELSE 0
    /\ pc' = "done"
    /\ UNCHANGED <<entry, pciRoot, entries, romEnabled, args, gpus, addr,
                   romData, data, diag>>

\* validate_vbios(data) called on its own
Validate ==
    /\ pc = "validate"
    /\ vres' = validate_vbios(data)
    /\ exc' = IF vres'.raised THEN "StructError" ELSE "none"
    /\ exitCode' = IF vres'.raised THEN 1 ELSE 0
    /\ pc' = "done"
    /\ UNCHANGED <<entry, pciRoot, entries, romEnabled, outFile, args, gpus,
                   addr, romData, data, diag, response, saveRet, ioLog>>

Next ==
    \/ Main_ParseArgs
    \/ Call_validate_vbios
    \/ Call_save_vbios
    \/ FindNvidiaGpus
    \/ Main_Select
    \/ RomPathCheck
    \/ EnableWrite
    \/ BulkRead
    \/ DisableWrite
    \/ Main_CheckData
    \/ SaveVbios
    \/ Validate

Spec == Init /\ [][Next]_vars

\* ================================================================ claims
LogHas(op, res) == \E i \in DOMAIN ioLog : ioLog[i].op = op /\ ioLog[i].res = res
LogHasOp(op) == \E i \in DOMAIN ioLog : ioLog[i].op = op
Returned == pc = "checkdata"

\* C1: whenever the enable write succeeded, a disable write to the same
\* device follows it before read_vbios_from_device returns, whether the read
\* succeeded or raised; if that disable write succeeded the ROM BAR is
\* disabled on return.
C1_DisableAlwaysIssued ==
    Returned =>
        \A i \in DOMAIN ioLog :
            (ioLog[i].op = "enable" /\ ioLog[i].res = "ok") =>
                \E j \in DOMAIN ioLog :
                    /\ j > i
                    /\ ioLog[j].op = "disable"
                    /\ ioLog[j].addr = ioLog[i].addr
                    /\ (ioLog[j].res = "ok" => ioLog[i].addr \notin romEnabled)

\* C2: when the enable write and the read succeed and the disable write
\* fails, read_vbios_from_device still returns the bytes that were read.
C2_ReadSurvivesDisableFailure ==
    (Returned /\ LogHas("read", "ok") /\ LogHasOp("disable") /\ ~LogHas("disable", "ok"))
        => (~data.isNone /\ data = romData)

\* C3: when the enable write fails (or the rom attribute is missing),
\* read_vbios_from_device returns None without reading the rom attribute and
\* without a disable write, and a permission error is reported with the
\* permission-denied diagnostic.
C3_EnableFailureAborts ==
    (Returned /\ ~LogHas("enable", "ok")) =>
        /\ data = None
        /\ ~LogHasOp("read")
        /\ ~LogHasOp("disable")
        /\ romEnabled = {}
        /\ (LogHas("enable", "PermissionError") => diag = "PermissionDenied")

C3_Witness ==
    /\ Returned
    /\ ioLog = <<Io("enable", addr, "PermissionError")>>
    /\ diag = "PermissionDenied"
    /\ data = None

\* the classification of section 4.3, read directly off the bytes
Classification(d) ==
    IF d.isNone \/ Len(d.bytes) < 64 THEN VResult(FALSE, "too_small", FALSE)
    ELSE IF ~(d.bytes[1] = 85 /\ d.bytes[2] = 170)
         THEN VResult(FALSE, "bad_signature", FALSE)
    ELSE LET p == d.bytes[25] + 256 * d.bytes[26] IN
         IF /\ p + 4 <= Len(d.bytes)
            /\ d.bytes[p + 1] = 80 /\ d.bytes[p + 2] = 67
            /\ d.bytes[p + 3] = 73 /\ d.bytes[p + 4] = 82
         THEN VResult(TRUE, "pcir_found", FALSE)
         ELSE VResult(TRUE, "signature_only", FALSE)

\* C4: validate_vbios never raises and classifies every input as: too small
\* when absent or shorter than 64 bytes; else bad signature when bytes 0..1
\* are not 55 AA; else PCIR found when the little-endian pointer p at 0x18
\* satisfies p + 4 <= length and bytes p..p+3 are "PCIR"; else (also for
\* every p beyond the image) valid with the weaker signature-only reason.
C4_ValidateClassification ==
    vres.reason # "none" => (~vres.raised /\ vres = Classification(data))

\* a pointer beyond the end of the image degrades to the weaker reason
C4_Witness ==
    /\ pc = "done"
    /\ entry = "validate_vbios"
    /\ ~data.isNone
    /\ Len(data.bytes) >= 64
    /\ data.bytes[25] + 256 * data.bytes[26] > Len(data.bytes)
    /\ vres = VResult(TRUE, "signature_only", FALSE)

Affirmative(r) == r \in { <<"y">>, <<"Y">> }

\* C5: save_vbios touches the destination only if the image validated as
\* valid or the confirmation was answered affirmatively; an invalid image
\* with a declined confirmation leaves the destination as it was and the
\* call returns False.
C5_WriteOnlyIfValidOrConfirmed ==
    (pc = "done" /\ vres.reason # "none" /\ entry # "validate_vbios") =>
        /\ (LogHasOp("open_wb") \/ outFile # StaleArtifact)
              => (vres.valid \/ Affirmative(response))
        /\ (~vres.valid /\ ~Affirmative(response))
              => (outFile = StaleArtifact /\ ~LogHasOp("open_wb") /\ saveRet = "False")

C5_Witness ==
    /\ pc = "done"
    /\ entry = "main"
    /\ vres = VResult(FALSE, "bad_signature", FALSE)
    /\ response = <<"n">>
    /\ saveRet = "False"
    /\ outFile = StaleArtifact

ListDone == gpus # <<>> /\ args.list
Saved == saveRet = "True"
NoDevices == gpus = <<>>
IndexTooLarge == gpus # <<>> /\ ~args.list /\ args.index >= Len(gpus)
CaptureFailed == addr # 0 /\ Falsy(data)
UserDeclined == saveRet = "False"

\* C6: main exits with code 0 exactly when list mode completed or the
\* artifact was saved, and with code 1 when no device was found, the index
\* was invalid, the capture failed or the user declined to save an invalid
\* image.
C6_ExitCodes ==
    (pc = "done" /\ entry = "main") =>
        /\ (exitCode = 0 <=> (ListDone \/ Saved))
        /\ (NoDevices \/ IndexTooLarge \/ CaptureFailed \/ UserDeclined) => exitCode = 1

Usable(e) ==
    /\ e.vendor.state = "ok"
    /\ e.device.state = "ok"
    /\ Lower(Strip(e.vendor.text)) = <<"0", "x", "1", "0", "d", "e">>

RECURSIVE Catalog(_)
Catalog(es) ==
    IF es = <<>> THEN <<>>
    ELSE (IF Usable(Head(es))
          THEN << <<Head(es).name, Strip(Head(es).device.text)>> >>
          ELSE <<>>) \o Catalog(Tail(es))

\* C7: find_nvidia_gpus returns exactly the entries whose vendor and device
\* attributes are both readable and whose trimmed vendor text equals 0x10de
\* case-insensitively, in directory order.
C7_CaseInsensitiveVendorFilter ==
    pc = "select" => gpus = Catalog(entries)

\* C8: no I/O failure leaves find_nvidia_gpus, read_vbios_from_device or
\* save_vbios as an uncaught exception.
C8_NoUncaughtIoFailure ==
    exc \notin {"PermissionError", "OSError"}

\* C9: after save_vbios returns True the destination holds exactly the bytes
\* of the image, in content and length.
C9_RoundTrip ==
    (pc = "done" /\ saveRet = "True") =>
        /\ ~data.isNone
        /\ Len(outFile) = Len(data.bytes)
        /\ outFile = data.bytes

C9_Witness ==
    /\ pc = "done"
    /\ saveRet = "True"
    /\ vres.valid
    /\ Len(data.bytes) >= 64
    /\ outFile = data.bytes

\* C10: with a non-empty catalog of length n and capture requested, an index
\* outside 0..n-1 (too large or negative) ends the run with exit code 1
\* without any rom attribute access and without writing the artifact.
C10_InvalidIndexRejected ==
    ( /\ entry = "main"
      /\ pc \notin {"start", "find", "select"}
      /\ gpus # <<>>
      /\ ~args.list
      /\ args.index \notin 0..(Len(gpus) - 1) ) =>
        /\ pc = "done"
        /\ exitCode = 1
        /\ ioLog = <<>>
        /\ outFile = StaleArtifact

====
